---------------------------- MODULE Spec2Model ----------------------------
(***************************************************************************)
(* A model of search.py: a command-line tool that assembles a find/grep   *)
(* command from its options and prints or executes it.                    *)
(*                                                                         *)
(* Text is modelled as a sequence of atoms.  An atom is one character     *)
(* where the character matters to the code (quotes, backslash, blank,     *)
(* newline, comma, tilde, slash, the letters of a category name) and a    *)
(* whole word where it does not (an option keyword, an extension).  The   *)
(* word "-size" is an atom of the user's alphabet too, so that the        *)
(* substring test of invoke_command sees it wherever it occurs.           *)
(*                                                                         *)
(* The text of a command carries, for every atom, whether it was copied   *)
(* from user-supplied data (u = TRUE) or written by the program           *)
(* (u = FALSE).  The flag is bookkeeping only: no operation of the        *)
(* program reads it.                                                       *)
(***************************************************************************)
EXTENDS Naturals, Sequences, FiniteSets, TLC

(***************************************************************************)
(* Bounds of the model.                                                    *)
(***************************************************************************)
\* total number of atoms in search_path, file_pattern and --grep together
MaxChars == 3
\* number of comma-separated tokens in a --file-type selector
MaxTokens == 2
\* number of entries typed at the creation of a saved path list
MaxPaths == 2
\* total number of atoms of the entries typed at one creation
MaxEntryChars == 3
\* total number of output lines the child processes of one run write
MaxLines == 2
\* number of times the tool is run on the same file system
MaxRuns == 2

(***************************************************************************)
(* Text helpers.                                                           *)
(***************************************************************************)
None == [some |-> FALSE, v |-> <<>>]
Some(s) == [some |-> TRUE, v |-> s]

\* program-written text
Lit(s) == [i \in 1..Len(s) |-> [c |-> s[i], u |-> FALSE]]
\* text copied from user-supplied data
Usr(s) == [i \in 1..Len(s) |-> [c |-> s[i], u |-> TRUE]]
\* the characters of a text, without the bookkeeping
Plain(t) == [i \in 1..Len(t) |-> t[i].c]

\* all sequences over S of length at most n
RECURSIVE SeqsUpTo(_, _)
SeqsUpTo(S, n) ==
    IF n = 0 THEN {<<>>}
    ELSE LET shorter == SeqsUpTo(S, n - 1)
         IN  shorter \cup {Append(s, x) : s \in {t \in shorter : Len(t) = n - 1}, x \in S}

\* str.replace('"', '\\"')
RECURSIVE EscapeDoubleQuotes(_)
EscapeDoubleQuotes(s) ==
    IF s = <<>> THEN <<>>
    ELSE (IF Head(s) = "\"" THEN <<"\\", "\"">> ELSE <<Head(s)>>)
         \o EscapeDoubleQuotes(Tail(s))

\* str.startswith
StartsWith(s, prefix) ==
    /\ Len(prefix) <= Len(s)
    /\ \A i \in 1..Len(prefix) : s[i] = prefix[i]

\* str.split(sep): the pieces between separators, at least one piece
RECURSIVE SplitFrom(_, _, _)
SplitFrom(s, sep, piece) ==
    IF s = <<>> THEN <<piece>>
    ELSE IF Head(s) = sep THEN <<piece>> \o SplitFrom(Tail(s), sep, <<>>)
    ELSE SplitFrom(Tail(s), sep, Append(piece, Head(s)))

Split(s, sep) == SplitFrom(s, sep, <<>>)

\* sep.join(pieces)
RECURSIVE Join(_, _)
Join(pieces, sep) ==
    IF pieces = <<>> THEN <<>>
    ELSE IF Len(pieces) = 1 THEN pieces[1]
    ELSE pieces[1] \o <<sep>> \o Join(Tail(pieces), sep)

\* 'needle' in text, for a needle that is one atom
Contains(text, needle) == \E i \in 1..Len(text) : text[i].c = needle

Whitespace == {" ", "\n"}

\* str.rstrip(): drops every trailing whitespace character
RECURSIVE RStrip(_)
RStrip(s) ==
    IF s # <<>> /\ s[Len(s)] \in Whitespace THEN RStrip(SubSeq(s, 1, Len(s) - 1))
    ELSE s

(***************************************************************************)
(* Search.__init__                                                         *)
(***************************************************************************)
Platforms == {"Windows", "Linux"}

grep_file_size_threshold == Lit(<<"-size", " ", "-2000k", " ">>)

grep_terminator(pf) == IF pf = "Windows" THEN Lit(<<";">>) ELSE Lit(<<"\\", ";">>)

(***************************************************************************)
(* create_file_type_categories: the registry, an insertion-ordered         *)
(* mapping kept as a sequence of (key, category) entries.                  *)
(***************************************************************************)
Cat(size, match, extensions) == [size |-> size, match |-> match, extensions |-> extensions]

Entry(key, cat) == [key |-> key, cat |-> cat]

HandAuthored ==
    << Entry(<<"t","e","x","t">>,
             Cat(<<>>, TRUE, <<"txt", "md", "markdown", "csv", "url">>)),
       Entry(<<"m","a","r","k","u","p","-","t","e","x","t">>,
             Cat(<<>>, TRUE, <<"tex", "htm", "html", "rtf">>)),
       Entry(<<"c","o","d","e">>,
             Cat(<<>>, TRUE, <<"c", "cpp", "cc", "h", "hpp", "java", "swift", "php",
                               "rb", "el", "lsp", "m", "cp">>)),
       Entry(<<"c","o","n","f","i","g","u","r","a","t","i","o","n">>,
             Cat(<<>>, TRUE, <<"cfg", "reg", "yaml", "ini", "xml", "json">>)),
       Entry(<<"s","c","r","i","p","t">>,
             Cat(<<>>, TRUE, <<"sh", "py", "pl", "mk", "mak", "cmake", "bat", "ps1",
                               "vb", "vbs", "ws", "scpt", "command", "tcl", "vim",
                               "r", "lua">>)),
       Entry(<<"i","m","a","g","e">>,
             Cat(<<"+4k">>, TRUE, <<"png", "jpg", "bmp", "gif", "jpeg", "svg", "tif",
                                    "tiff">>)),
       Entry(<<"a","u","d","i","o">>,
             Cat(<<"+10k">>, TRUE, <<"mp3", "wma", "ogg", "wav", "midi", "aif">>)),
       Entry(<<"v","i","d","e","o">>,
             Cat(<<"+500k">>, TRUE, <<"avi", "mkv", "mpg", "mpeg", "h264", "mov", "mp4",
                                      "vob", "flv", "3gp", "wmv">>)),
       Entry(<<"c","e","r","t","i","f","i","c","a","t","e">>,
             Cat(<<>>, TRUE, <<"cer", "crt", "der", "pem", "crl">>)),
       Entry(<<"a","r","c","h","i","v","e">>,
             Cat(<<>>, TRUE, <<"7z", "zip", "gz", "tgz", "z", "rar", "rpm", "pkg",
                               "deb">>)) >>

NotPrefix == <<"n","o","t","-">>

\* the generated 'not-' entry of one entry
NotEntry(e) == Entry(NotPrefix \o e.key, [e.cat EXCEPT !.match = FALSE])

\* the 'not-' entries generated for the entries whose key does not start with 'not-'
RECURSIVE NotEntries(_)
NotEntries(entries) ==
    IF entries = <<>> THEN <<>>
    ELSE (IF StartsWith(Head(entries).key, NotPrefix) THEN <<>>
          ELSE <<NotEntry(Head(entries))>>)
         \o NotEntries(Tail(entries))

\* dict.update: the generated entries follow the hand-authored ones
create_file_type_categories == HandAuthored \o NotEntries(HandAuthored)

(***************************************************************************)
(* find_file_type_cat_or_exit                                              *)
(***************************************************************************)
\* (variant: no break, the last key that starts with the token wins)
RECURSIVE LastMatch(_, _)
LastMatch(registry, file_type) ==
    IF registry = <<>> THEN <<>>
    ELSE LET later == LastMatch(Tail(registry), file_type)
         IN  IF later # <<>> THEN later
             ELSE IF StartsWith(Head(registry).key, file_type) THEN <<Head(registry).cat>>
             ELSE <<>>

\* the inner loop: the category of the first key that starts with the token,
\* <<>> when there is none, else <<category>>
RECURSIVE FirstMatch(_, _)
FirstMatch(registry, file_type) ==
    IF registry = <<>> THEN <<>>
    ELSE IF StartsWith(Head(registry).key, file_type) THEN <<Head(registry).cat>>
    ELSE FirstMatch(Tail(registry), file_type)

\* (variant: a token that matches no key is skipped)
RECURSIVE ResolveTokensSkipping(_, _, _, _)
ResolveTokensSkipping(registry, tokens, cats, tried) ==
    IF tokens = <<>> THEN [ok |-> TRUE, cats |-> cats, tried |-> tried]
    ELSE ResolveTokensSkipping(registry, Tail(tokens),
                               cats \o FirstMatch(registry, Head(tokens)), tried + 1)

\* the outer loop over the tokens: ok = FALSE is exit(1), reached after
\* 'tried' tokens; cats is the list returned (nothing is returned on exit)
RECURSIVE ResolveTokens(_, _, _, _)
ResolveTokens(registry, tokens, cats, tried) ==
    IF tokens = <<>> THEN [ok |-> TRUE, cats |-> cats, tried |-> tried]
    ELSE LET found == FirstMatch(registry, Head(tokens))
         IN  IF found # <<>>
             THEN ResolveTokens(registry, Tail(tokens), cats \o found, tried + 1)
             ELSE [ok |-> FALSE, cats |-> <<>>, tried |-> tried + 1]

find_file_type_cat_or_exit(registry, file_type) ==
    ResolveTokens(registry, Split(file_type, ","), <<>>, 0)

(***************************************************************************)
(* add_file_ext_filter, add_time_filter, prepare_arguments_for_find        *)
(***************************************************************************)
\* '-' + self.case_insensitive + 'name'
NameOption(case_insensitive) == IF case_insensitive = "i" THEN "-iname" ELSE "-name"

\* "-[i]name '" + file_pattern + '.' + ext + "' "
NameTerm(case_insensitive, file_pattern, ext) ==
    Lit(<<NameOption(case_insensitive), " ", "'">>) \o Usr(file_pattern)
    \o Lit(<<".", ext, "'", " ">>)

\* the terms of extensions[1:], each prefixed with the joining operator
RECURSIVE MoreTerms(_, _, _, _)
MoreTerms(prefix, case_insensitive, file_pattern, exts) ==
    IF exts = <<>> THEN <<>>
    ELSE prefix \o NameTerm(case_insensitive, file_pattern, Head(exts))
         \o MoreTerms(prefix, case_insensitive, file_pattern, Tail(exts))

\* (variant: the negated terms of a category are joined by OR)
CategoryTermsOrJoined(cat, first_type, case_insensitive, file_pattern) ==
    (IF ~first_type THEN Lit(<<"-o", " ">>) ELSE <<>>)
    \o (IF cat.match = FALSE THEN Lit(<<"-not", " ">>) ELSE <<>>)
    \o NameTerm(case_insensitive, file_pattern, cat.extensions[1])
    \o MoreTerms(IF cat.match = FALSE THEN Lit(<<"-o", " ", "-not", " ">>)
                 ELSE Lit(<<"-o", " ">>),
                 case_insensitive, file_pattern, Tail(cat.extensions))

\* one iteration of the loop over the categories
CategoryTerms(cat, first_type, case_insensitive, file_pattern) ==
    IF cat.match = FALSE
    THEN (IF ~first_type THEN Lit(<<"-o", " ">>) ELSE <<>>)
         \o Lit(<<"-not", " ">>)
         \o NameTerm(case_insensitive, file_pattern, cat.extensions[1])
         \o MoreTerms(Lit(<<"-a", " ", "-not", " ">>), case_insensitive, file_pattern,
                      Tail(cat.extensions))
    ELSE (IF ~first_type THEN Lit(<<"-o", " ">>) ELSE <<>>)
         \o NameTerm(case_insensitive, file_pattern, cat.extensions[1])
         \o MoreTerms(Lit(<<"-o", " ">>), case_insensitive, file_pattern,
                      Tail(cat.extensions))

RECURSIVE CategoryLoop(_, _, _, _)
CategoryLoop(cats, first_type, case_insensitive, file_pattern) ==
    IF cats = <<>> THEN <<>>
    ELSE CategoryTerms(Head(cats), first_type, case_insensitive, file_pattern)
         \o CategoryLoop(Tail(cats), FALSE, case_insensitive, file_pattern)

\* the text add_file_ext_filter appends to find_arg
add_file_ext_filter(cats, case_insensitive, file_pattern) ==
    Lit(<<"\\", "(", " ">>)
    \o CategoryLoop(cats, TRUE, case_insensitive, file_pattern)
    \o Lit(<<" ", "\\", ")", " ">>)

LastModifiedChoices == {"y", "q", "m", "w", "d", "t"}

\* lm_dict
add_time_filter(last_modified) ==
    CASE last_modified = "y" -> Lit(<<"-mtime", " ", "-365", " ">>)
      [] last_modified = "q" -> Lit(<<"-mtime", " ", "-90", " ">>)
      [] last_modified = "m" -> Lit(<<"-mtime", " ", "-30", " ">>)
      [] last_modified = "w" -> Lit(<<"-mtime", " ", "-7", " ">>)
      [] last_modified = "d" -> Lit(<<"-mtime", " ", "-1", " ">>)
      [] last_modified = "t" -> Lit(<<"-mmin", " ", "-720", " ">>)

\* (variant: the size of the first category, however many were selected)
CategorySizeOfFirst(cats) ==
    IF cats[1].size # <<>>
    THEN Lit(<<"-size", " ">>) \o Lit(cats[1].size) \o Lit(<<" ">>)
    ELSE <<>>

\* the size predicate of the selected categories
CategorySize(cats) ==
    IF Len(cats) = 1 /\ cats[1].size # <<>>
    THEN Lit(<<"-size", " ">>) \o Lit(cats[1].size) \o Lit(<<" ">>)
    ELSE <<>>

FindArgPrefix == Lit(<<"-not", " ", "-path", " ", "'", "*/.git/*", "'", " ">>)

\* find_arg for the resolved categories (file types given)
FindArgForCategories(a, case_insensitive, cats) ==
    FindArgPrefix \o CategorySize(cats)
    \o add_file_ext_filter(cats, case_insensitive, a.file_pattern)

\* find_arg for one file pattern (no file types given)
FindArgForPattern(a, case_insensitive) ==
    FindArgPrefix \o Lit(<<NameOption(case_insensitive), " ", "'">>)
    \o Usr(a.file_pattern) \o Lit(<<"'", " ">>)

TimeArg(a) == IF a.last_modified.some THEN add_time_filter(a.last_modified.v) ELSE <<>>

(***************************************************************************)
(* prepare_arguments_for_grep                                              *)
(***************************************************************************)
GrepArg(a) ==
    Lit(<<"-exec", " ", "grep", " ", "--color=always", " ">>)
    \o Lit(<<"--with-filename", " ", "--line-number", " ">>)
    \o (IF a.more_context.some
        THEN Lit(<<"--before-context=">>) \o Usr(a.more_context.v) \o Lit(<<" ">>)
             \o Lit(<<"--after-context=">>) \o Usr(a.more_context.v) \o Lit(<<" ">>)
        ELSE <<>>)


(***************************************************************************)
(* shlex.split(command): POSIX mode, whitespace_split, no comment          *)
(* characters.  ok = FALSE is the ValueError of an unclosed quotation or   *)
(* of a trailing escape character.                                         *)
(***************************************************************************)
ShlexQuotes == {"'", "\""}

\* the token is delivered when it is not empty or was quoted
Deliver(argv, token, quoted) ==
    IF token # <<>> \/ quoted THEN Append(argv, token) ELSE argv

\* the scanner: state is ' ' (between tokens), 'a' (in a token), a quote
\* character (in a quotation) or the backslash (after an escape character)
ShlexStart ==
    [state |-> " ", escapedstate |-> "a", token |-> <<>>, quoted |-> FALSE,
     argv |-> <<>>, esc |-> <<>>]

\* one character read by read_token
ShlexStep(s, atom) ==
    LET ch == atom.c
    IN  CASE s.state = " " ->
               IF ch \in Whitespace THEN s
               ELSE IF ch = "\\"
               THEN [s EXCEPT !.state = "\\", !.escapedstate = "a", !.esc = <<atom>>]
               ELSE IF ch \in ShlexQuotes THEN [s EXCEPT !.state = ch]
               ELSE [s EXCEPT !.state = "a", !.token = <<atom>>]
          [] s.state \in ShlexQuotes ->
               IF ch = s.state THEN [s EXCEPT !.state = "a", !.quoted = TRUE]
               ELSE IF ch = "\\" /\ s.state = "\""
               THEN [s EXCEPT !.state = "\\", !.escapedstate = s.state, !.quoted = TRUE,
                              !.esc = <<atom>>]
               ELSE [s EXCEPT !.token = Append(@, atom), !.quoted = TRUE]
          [] s.state = "\\" ->
               IF s.escapedstate \in ShlexQuotes /\ ch # "\\" /\ ch # s.escapedstate
               THEN [s EXCEPT !.state = s.escapedstate, !.token = @ \o s.esc \o <<atom>>]
               ELSE [s EXCEPT !.state = s.escapedstate, !.token = Append(@, atom)]
          [] s.state = "a" ->
               IF ch \in Whitespace
               THEN [s EXCEPT !.state = " ", !.token = <<>>, !.quoted = FALSE,
                              !.argv = Deliver(@, s.token, s.quoted)]
               ELSE IF ch \in ShlexQuotes THEN [s EXCEPT !.state = ch]
               ELSE IF ch = "\\"
               THEN [s EXCEPT !.state = "\\", !.escapedstate = "a", !.esc = <<atom>>]
               ELSE [s EXCEPT !.token = Append(@, atom)]

ShlexStates == {" ", "a", "\\"} \cup ShlexQuotes

\* the characters lo..hi read in order, starting in s.  The text is halved so
\* that the evaluation nests no deeper than the logarithm of its length; the
\* test on the state of the first half has it evaluated before the second
\* half is entered.
RECURSIVE ShlexScan(_, _, _, _)
ShlexScan(text, lo, hi, s) ==
    IF lo > hi THEN s
    ELSE IF lo = hi THEN ShlexStep(s, text[lo])
    ELSE LET mid == (lo + hi) \div 2
             half == ShlexScan(text, lo, mid, s)
         IN  IF half.state \in ShlexStates
             THEN ShlexScan(text, mid + 1, hi, half)
             ELSE half

\* the end of the text: an open quotation or a pending escape is an error
ShlexSplit(command) ==
    LET s == ShlexScan(command, 1, Len(command), ShlexStart)
    IN  IF s.state \in ShlexQuotes \/ s.state = "\\"
        THEN [ok |-> FALSE, argv |-> <<>>]
        ELSE [ok |-> TRUE, argv |-> Deliver(s.argv, s.token, s.quoted)]

(***************************************************************************)
(* The saved path list: the file <config>/default-paths/<id>.txt           *)
(***************************************************************************)
\* the home directory of the invoking user
Home == <<"/", "home">>

\* os.path.expanduser: '~' alone or before '/' becomes the home directory;
\* '~name' names a user the password database does not know and is kept
ExpandUser(path) ==
    IF path = <<>> \/ Head(path) # "~" THEN path
    ELSE IF Len(path) = 1 \/ path[2] = "/" THEN Home \o Tail(path)
    ELSE path

\* the lines a text file iterates over, each with its newline when it has one
FileLines(content) ==
    LET pieces == Split(content, "\n")
        n == Len(pieces)
    IN  [i \in 1..(IF pieces[n] = <<>> THEN n - 1 ELSE n) |->
            IF i < n THEN Append(pieces[i], "\n") ELSE pieces[i]]

\* path.rstrip().replace('"', '\\"'), then os.path.expanduser
PathToAdd(line) == ExpandUser(EscapeDoubleQuotes(RStrip(line)))

\* the body of the try block of parse_default_paths_from_file: the paths read
\* before the file fails (badFrom = 0: it does not fail; the file is decoded a
\* block at a time, badFrom is the first line of the block that fails)
ReadPaths(f) ==
    LET lines == FileLines(f.content)
        n == IF f.badFrom = 0 THEN Len(lines) ELSE f.badFrom - 1
    IN  [i \in 1..n |-> PathToAdd(lines[i])]

ReadFails(f) == ~f.exists \/ f.badFrom # 0

\* what the input loop has written once 'line' was typed after 'typed'
Written(content, typed, line) ==
    content \o (IF typed # <<>> THEN <<"\n">> ELSE <<>>) \o line

(***************************************************************************)
(* invoke_command: the command assembled for one path                      *)
(***************************************************************************)
Truthy(opt) == opt.some /\ opt.v # <<>>

\* the size ceiling is added unless the text so far contains '-size'
SizeCeiling(command) ==
    IF ~Contains(command, "-size") THEN grep_file_size_threshold ELSE <<>>

GrepPart(a, farg, garg, pf, command) ==
    LET typed == command \o Lit(<<" ", "-type", " ", "f", " ">>)
    IN  Lit(<<" ", "-type", " ", "f", " ">>)
        \o SizeCeiling(typed)
        \o garg
        \o (IF ~a.case_sensitive THEN Lit(<<"--ignore-case", " ">>) ELSE <<>>)
        \o Lit(<<"'">>) \o Usr(a.grep.v) \o Lit(<<"'", " ", "{}", " ">>)
        \o grep_terminator(pf)

Command(path, a, farg, garg, pf) ==
    LET command == Lit(<<"find", " ", "'">>) \o Usr(path) \o Lit(<<"'", " ">>) \o farg
    IN  IF Truthy(a.grep) THEN command \o GrepPart(a, farg, garg, pf, command)
        ELSE command

\* the warning of the else branch is printed for this path
WarnsContext(a) == ~Truthy(a.grep) /\ a.more_context.some

\* print(command)
PrintsCommand(a) == a.verbose \/ a.show_command

\* (variant: the command is executed in show-only mode too)
ShouldExecuteAlways(a) == TRUE

\* the command is executed
ShouldExecute(a) == ~a.show_command

\* (variant: the read loop ends at end-of-file, without asking for the exit)
LoopBreaksAtEof(exited, atEof) == atEof

\* the read loop ends: process.poll() is not None and '' == line
LoopBreaks(exited, atEof) == exited /\ atEof


(***************************************************************************)
(* The state.                                                              *)
(*   env       what the run is started with and cannot change: platform,  *)
(*             whether a terminal is attached, the command line (argv),   *)
(*             the lines waiting on standard input (script)               *)
(*   file      the saved path list on disk; it outlives a run             *)
(*   args..idx the fields of the Search object and the loop position      *)
(*   stdin     the lines of standard input not read yet                   *)
(*   out, err  what was written to standard output / standard error      *)
(*   children  the child processes spawned by Popen, oldest first         *)
(*   stty      the number of 'stty size' processes spawned by os.popen    *)
(*   typed, created   the entries typed at the interactive creation and   *)
(*             how that creation ended (history, never read by the code)  *)
(***************************************************************************)
VARIABLES env, file, args, pc, case_insensitive, find_arg, grep_arg,
          file_type_cats, tried, paths, idx, stdin, out, err, children, stty,
          exit_status, run, typed, created

vars == <<env, file, args, pc, case_insensitive, find_arg, grep_arg,
          file_type_cats, tried, paths, idx, stdin, out, err, children, stty,
          exit_status, run, typed, created>>

Ev(k, p, n, text) == [k |-> k, p |-> p, n |-> n, text |-> text]

Msg(k) == Ev(k, 0, 0, <<>>)

Argv(sp, fp, g, d, f, s, v, m, l, c) ==
    [search_path |-> sp, file_pattern |-> fp, grep |-> g, default_path_file |-> d,
     file_type |-> f, show_command |-> s, verbose |-> v, more_context |-> m,
     last_modified |-> l, case_sensitive |-> c]

File(exists, content, badFrom, writable) ==
    [exists |-> exists, content |-> content, badFrom |-> badFrom, writable |-> writable]

NoFile == File(FALSE, <<>>, 0, TRUE)

\* the state of a run that starts in environment e with the file f on disk
Start(e, f, r, t, c) ==
    /\ env = e
    /\ file = f
    /\ args = e.argv
    /\ pc = "parse"
    /\ case_insensitive = ""
    /\ find_arg = <<>>
    /\ grep_arg = <<>>
    /\ file_type_cats = <<>>
    /\ tried = 0
    /\ paths = <<>>
    /\ idx = 1
    /\ stdin = e.script
    /\ out = <<>>
    /\ err = <<>>
    /\ children = <<>>
    /\ stty = 0
    /\ exit_status = 0
    /\ run = r
    /\ typed = t
    /\ created = c

(***************************************************************************)
(* parse_arguments                                                         *)
(***************************************************************************)
ParsedArgs(a) ==
    [a EXCEPT !.search_path = EscapeDoubleQuotes(@),
              !.file_pattern = EscapeDoubleQuotes(@),
              !.grep = IF Truthy(a.grep) THEN Some(EscapeDoubleQuotes(a.grep.v)) ELSE @]

ParseArguments ==
    /\ pc = "parse"
    /\ args' = ParsedArgs(args)
    /\ case_insensitive' = IF ~args.case_sensitive THEN "i" ELSE ""
    /\ pc' = "find"
    /\ UNCHANGED <<env, file, find_arg, grep_arg, file_type_cats, tried, paths, idx,
                   stdin, out, err, children, stty, exit_status, run, typed, created>>

(***************************************************************************)
(* prepare_arguments_for_find                                              *)
(***************************************************************************)
PrepareArgumentsForFind ==
    /\ pc = "find"
    /\ IF Truthy(args.file_type)
       THEN LET r == find_file_type_cat_or_exit(create_file_type_categories,
                                                args.file_type.v)
            IN  IF r.ok
                THEN /\ find_arg' = FindArgForCategories(args, case_insensitive, r.cats)
                                    \o TimeArg(args)
                     /\ file_type_cats' = r.cats
                     /\ tried' = r.tried
                     /\ pc' = "grep"
                     /\ UNCHANGED <<out, exit_status>>
                ELSE /\ find_arg' = FindArgPrefix
                     /\ file_type_cats' = r.cats
                     /\ tried' = r.tried
                     /\ out' = Append(out, Msg("unknown file-type"))
                     /\ pc' = "exited"
                     /\ exit_status' = 1
       ELSE /\ find_arg' = FindArgForPattern(args, case_insensitive) \o TimeArg(args)
            /\ pc' = "grep"
            /\ UNCHANGED <<file_type_cats, tried, out, exit_status>>
    /\ UNCHANGED <<env, file, args, case_insensitive, grep_arg, paths, idx, stdin, err,
                   children, stty, run, typed, created>>

(***************************************************************************)
(* prepare_arguments_for_grep                                              *)
(***************************************************************************)
PrepareArgumentsForGrep ==
    /\ pc = "grep"
    /\ grep_arg' = GrepArg(args)
    /\ pc' = "paths"
    /\ UNCHANGED <<env, file, args, case_insensitive, find_arg, file_type_cats, tried,
                   paths, idx, stdin, out, err, children, stty, exit_status, run,
                   typed, created>>

(***************************************************************************)
(* prepare_list_of_paths_to_search_in, parse_default_paths_from_file up to *)
(* the first input() of the yes/no dialog                                  *)
(***************************************************************************)
PrepareListOfPaths ==
    /\ pc = "paths"
    /\ idx' = 1
    /\ IF args.default_path_file.some
       THEN IF ReadFails(file)
            THEN /\ paths' = IF file.exists THEN ReadPaths(file) ELSE <<>>
                 /\ out' = out \o <<Msg("does not exist"), Msg("create it?")>>
                 /\ pc' = "dialog"
            ELSE /\ paths' = ReadPaths(file)
                 /\ pc' = "invoke"
                 /\ out' = out
       ELSE /\ paths' = <<args.search_path>>
            /\ pc' = "invoke"
            /\ out' = out
    /\ UNCHANGED <<env, file, args, case_insensitive, find_arg, grep_arg, file_type_cats,
                   tried, stdin, err, children, stty, exit_status, run, typed, created>>

(***************************************************************************)
(* dialog_yes_no: one answer read from standard input; on yes, the file is *)
(* opened for writing                                                      *)
(***************************************************************************)
\* input().lower()
Lower(line) == IF line = <<"Y">> THEN <<"y">> ELSE IF line = <<"N">> THEN <<"n">> ELSE line

Yes == {<<"yes">>, <<"ye">>, <<"y">>}
No == {<<"no">>, <<"n">>}

DialogAnswer ==
    /\ pc = "dialog"
    /\ IF stdin = <<>>
       THEN \* EOFError, raised inside the except block: nothing catches it
            /\ pc' = "crashed"
            /\ exit_status' = 1
            /\ UNCHANGED <<stdin, out, file, typed, created>>
       ELSE LET answer == Lower(Head(stdin))
            IN  /\ stdin' = Tail(stdin)
                /\ exit_status' = exit_status
                /\ IF answer \in Yes
                   THEN IF file.writable
                        THEN /\ file' = [file EXCEPT !.exists = TRUE, !.content = <<>>,
                                                     !.badFrom = 0]
                             /\ out' = Append(out, Msg("please enter"))
                             /\ pc' = "create"
                             /\ typed' = <<>>
                             /\ created' = "writing"
                        ELSE /\ out' = Append(out, Msg("cannot open"))
                             /\ pc' = "invoke"
                             /\ UNCHANGED <<file, typed, created>>
                   ELSE IF answer \in No \/ answer = <<>>
                   THEN /\ pc' = "invoke"
                        /\ UNCHANGED <<out, file, typed, created>>
                   ELSE /\ out' = out \o <<Msg("please respond"), Msg("create it?")>>
                        /\ pc' = "dialog"
                        /\ UNCHANGED <<file, typed, created>>
    /\ UNCHANGED <<env, args, case_insensitive, find_arg, grep_arg, file_type_cats, tried,
                   paths, idx, err, children, stty, run>>

(***************************************************************************)
(* the input loop of parse_default_paths_from_file: one line read          *)
(***************************************************************************)
EnterPath ==
    /\ pc = "create"
    /\ IF stdin = <<>>
       THEN \* EOFError, caught by the inner except
            /\ out' = Append(out, Msg("cannot open"))
            /\ created' = "failed"
            /\ pc' = "invoke"
            /\ UNCHANGED <<stdin, file, typed>>
       ELSE LET new_path == Head(stdin)
            IN  /\ stdin' = Tail(stdin)
                /\ out' = out
                /\ IF new_path # <<>>
                   THEN /\ file' = [file EXCEPT
                                      !.content = Written(file.content, typed, new_path)]
                        /\ typed' = Append(typed, new_path)
                        /\ UNCHANGED <<pc, created>>
                   ELSE /\ created' = "complete"
                        /\ pc' = "invoke"
                        /\ UNCHANGED <<file, typed>>
    /\ UNCHANGED <<env, args, case_insensitive, find_arg, grep_arg, file_type_cats, tried,
                   paths, idx, err, children, stty, exit_status, run>>

(***************************************************************************)
(* invoke_command: one iteration of the loop over self.paths, up to the    *)
(* Popen of execute_and_print_stdout_while_running                         *)
(***************************************************************************)
NewChild(p) == [p |-> p, alive |-> TRUE, open |-> TRUE, written |-> <<>>, nread |-> 0]

InvokeCommand ==
    /\ pc = "invoke"
    /\ idx <= Len(paths)
    /\ LET command == Command(paths[idx], args, find_arg, grep_arg, env.platform)
           warning == IF WarnsContext(args) THEN <<Ev("warning", idx, 0, <<>>)>> ELSE <<>>
           separator == IF args.verbose THEN <<Ev("separator", idx, 0, <<>>)>> ELSE <<>>
           printed == IF PrintsCommand(args) THEN <<Ev("command", idx, 0, command)>>
                      ELSE <<>>
       IN  /\ stty' = IF args.verbose THEN stty + 1 ELSE stty
           /\ IF args.verbose /\ ~env.tty
              THEN \* 'stty size' prints nothing: the unpacking raises ValueError
                   /\ out' = out \o warning
                   /\ pc' = "crashed"
                   /\ exit_status' = 1
                   /\ UNCHANGED <<idx, children>>
              ELSE /\ out' = out \o warning \o separator \o printed
                   /\ IF ShouldExecute(args)
                      THEN IF env.platform # "Windows" /\ ~ShlexSplit(command).ok
                           THEN \* shlex.split raises ValueError
                                /\ pc' = "crashed"
                                /\ exit_status' = 1
                                /\ UNCHANGED <<idx, children>>
                           ELSE /\ children' = Append(children, NewChild(idx))
                                /\ pc' = "reading"
                                /\ UNCHANGED <<idx, exit_status>>
                      ELSE /\ idx' = idx + 1
                           /\ UNCHANGED <<pc, children, exit_status>>
    /\ UNCHANGED <<env, file, args, case_insensitive, find_arg, grep_arg, file_type_cats,
                   tried, paths, stdin, err, run, typed, created>>

\* the loop over self.paths is over: main returns
InvokeReturn ==
    /\ pc = "invoke"
    /\ idx > Len(paths)
    /\ pc' = "done"
    /\ UNCHANGED <<env, file, args, case_insensitive, find_arg, grep_arg, file_type_cats,
                   tried, paths, idx, stdin, out, err, children, stty, exit_status,
                   run, typed, created>>

(***************************************************************************)
(* execute_and_print_stdout_while_running: one pass of the while loop.     *)
(* readline() blocks until a line is in the pipe or the pipe is closed.    *)
(***************************************************************************)
\* the line as text, readline().decode('utf-8'): whether the decoding succeeds
DecodesAlways(written, n) == TRUE

Decodes(written, n) == written[n]

ReadLine ==
    /\ pc = "reading"
    /\ LET i == Len(children)
           c == children[i]
           atEof == c.nread = Len(c.written)
           n == c.nread + 1
       IN  /\ ~atEof \/ ~c.open
           /\ IF ~atEof /\ ~Decodes(c.written, n)
              THEN \* decode raises: the except clause reports it
                   /\ err' = Append(err, Ev("cannot process", c.p, n, <<>>))
                   /\ children' = [children EXCEPT ![i].nread = n]
                   /\ UNCHANGED <<out, idx, pc>>
              ELSE IF LoopBreaks(~c.alive, atEof)
              THEN /\ idx' = idx + 1
                   /\ pc' = "invoke"
                   /\ children' = IF atEof THEN children
                                  ELSE [children EXCEPT ![i].nread = n]
                   /\ UNCHANGED <<out, err>>
              ELSE /\ out' = IF atEof THEN out ELSE Append(out, Ev("line", c.p, n, <<>>))
                   /\ children' = IF atEof THEN children
                                  ELSE [children EXCEPT ![i].nread = n]
                   /\ UNCHANGED <<err, idx, pc>>
    /\ UNCHANGED <<env, file, args, case_insensitive, find_arg, grep_arg, file_type_cats,
                   tried, paths, stdin, stty, exit_status, run, typed, created>>

(***************************************************************************)
(* The child processes (find, with grep under it): each writes lines to    *)
(* its end of the pipe, decodable as UTF-8 or not, and exits.              *)
(***************************************************************************)
RECURSIVE TotalWritten(_)
TotalWritten(cs) == IF cs = <<>> THEN 0 ELSE Len(Head(cs).written) + TotalWritten(Tail(cs))

ChildUnchanged ==
    UNCHANGED <<env, file, args, pc, case_insensitive, find_arg, grep_arg,
                file_type_cats, tried, paths, idx, stdin, out, err, stty, exit_status,
                run, typed, created>>

ChildWrites ==
    /\ TotalWritten(children) < MaxLines
    /\ \E i \in DOMAIN children, decodable \in BOOLEAN :
         /\ children[i].alive
         /\ children[i].open
         /\ children' = [children EXCEPT ![i].written = Append(@, decodable)]
    /\ ChildUnchanged

ChildCloses ==
    /\ \E i \in DOMAIN children :
         /\ children[i].alive
         /\ children[i].open
         /\ children' = [children EXCEPT ![i].open = FALSE]
    /\ ChildUnchanged

ChildExits ==
    /\ \E i \in DOMAIN children :
         /\ children[i].alive
         /\ children' = [children EXCEPT ![i].alive = FALSE, ![i].open = FALSE]
    /\ ChildUnchanged

(***************************************************************************)
(* The tool is started again, with the same command line and input, on the *)
(* file system the previous run left.                                      *)
(***************************************************************************)
Rerun ==
    /\ pc \in {"done", "exited", "crashed"}
    /\ run < MaxRuns
    /\ env' = env
    /\ file' = file
    /\ args' = env.argv
    /\ pc' = "parse"
    /\ case_insensitive' = ""
    /\ find_arg' = <<>>
    /\ grep_arg' = <<>>
    /\ file_type_cats' = <<>>
    /\ tried' = 0
    /\ paths' = <<>>
    /\ idx' = 1
    /\ stdin' = env.script
    /\ out' = <<>>
    /\ err' = <<>>
    /\ children' = <<>>
    /\ stty' = 0
    /\ exit_status' = 0
    /\ run' = run + 1
    /\ UNCHANGED <<typed, created>>


(***************************************************************************)
(* Inputs.                                                                 *)
(***************************************************************************)
Env(pf, tty, argv, script) == [platform |-> pf, tty |-> tty, argv |-> argv, script |-> script]

Image == <<"i","m","a","g","e">>
Text == <<"t","e","x","t">>
Unknown == <<"z","z">>

\* tokens of a --file-type selector: exact names, prefixes of one key, prefixes
\* of several keys, the empty token, names that match nothing
SelectorTokens ==
    { <<>>, <<"t">>, <<"t","e","x">>, Text, <<"t","e","x","t","s">>, <<"c">>,
      <<"c","o","n">>, Image, <<"a">>, <<"a","r">>, <<"v">>, NotPrefix,
      <<"n","o","t","-","i">>, Unknown }

Selectors(n) == {Join(ts, ",") : ts \in SeqsUpTo(SelectorTokens, n) \ {<<>>}}

DefaultList == <<"default-list">>

\* a terminal matters to a verbose run only
Terminals(verbose) == IF verbose THEN BOOLEAN ELSE {TRUE}

\* a saved path list of n lines
ListOf(n) == Join([i \in 1..n |-> IF i % 2 = 1 THEN <<"/", "a">> ELSE <<"~", "/", "b">>], "\n")

\* saved path lists and the input typed, for a run that names a saved list
RunLists ==
    LET yes == <<<<"maybe">>, <<"Y">>, <<"/", "a">>, <<>>>>
        cut == <<<<"y">>, <<"/", "a">>>>
    IN  {<<File(TRUE, ListOf(n), 0, TRUE), <<>>>> : n \in 0..MaxPaths}
        \cup {<<f, sc>> : f \in {NoFile, File(FALSE, <<>>, 0, FALSE),
                                 File(TRUE, ListOf(MaxPaths), MaxPaths, TRUE)},
                          sc \in {<<>>, <<<<"n">>>>, <<<<>>>>, yes, cut}}

\* the paths and input of a run that names no saved list
RunSingles == {<<sp, NoFile, <<>>>> : sp \in {<<".">>, <<"a", "'", "b">>}}

RunSources ==
    {<<Some(DefaultList), <<".">>, l[1], l[2]>> : l \in RunLists}
    \cup {<<None, s[1], s[2], s[3]>> : s \in RunSingles}

\* Whole runs: every flag combination, few texts
Init ==
    \E pf \in Platforms, src \in RunSources,
       g \in {None, Some(<<"x">>)},
       f \in {None, Some(Image), Some(Unknown), Some(Join(<<Image, Unknown>>, ","))},
       s \in BOOLEAN, v \in BOOLEAN,
       m \in {None, Some(<<"2">>)},
       l \in {None, Some("w")} :
      \E tty \in Terminals(v) :
        Start(Env(pf, tty, Argv(src[2], <<"*">>, g, src[1], f, s, v, m, l, FALSE), src[4]),
              src[3], 1, <<>>, "no")

Next ==
    \/ ParseArguments
    \/ PrepareArgumentsForFind
    \/ PrepareArgumentsForGrep
    \/ PrepareListOfPaths
    \/ DialogAnswer
    \/ EnterPath
    \/ InvokeCommand
    \/ InvokeReturn
    \/ ReadLine
    \/ ChildWrites
    \/ ChildCloses
    \/ ChildExits

Spec == Init /\ [][Next]_vars

(***************************************************************************)
(* Show-only runs on the path of the command line: the texts of the        *)
(* command line range over every string of the alphabet.  Such a run       *)
(* reads no input and spawns nothing, so the steps below are all it takes. *)
(***************************************************************************)
BuildAlphabet == {"a", "\"", "'", "-size"}

NextBuild ==
    \/ ParseArguments
    \/ PrepareArgumentsForFind
    \/ PrepareArgumentsForGrep
    \/ PrepareListOfPaths
    \/ InvokeCommand
    \/ InvokeReturn

\* search_path, file_pattern and --grep, of MaxChars atoms together
BuildTexts ==
    LET S == SeqsUpTo(BuildAlphabet, MaxChars)
    IN  {<<sp, fp, g>> \in S \X S \X ({None} \cup {Some(x) : x \in S}) :
            Len(sp) + Len(fp) + Len(g.v) <= MaxChars}

InitBuild ==
    \E pf \in Platforms, t \in BuildTexts,
       f \in {None, Some(Image), Some(Join(<<Text, Image>>, ","))},
       m \in {None, Some(<<"2">>)},
       c \in BOOLEAN :
      Start(Env(pf, TRUE, Argv(t[1], t[2], t[3], None, f, TRUE, FALSE, m, None, c), <<>>),
            NoFile, 1, <<>>, "no")

SpecBuild == InitBuild /\ [][NextBuild]_vars

(***************************************************************************)
(* Show-only runs on the path of the command line: the --file-type         *)
(* selector ranges over every list of MaxTokens tokens.                    *)
(***************************************************************************)
InitSelect ==
    \E f \in {None, Some(<<>>)} \cup {Some(x) : x \in Selectors(MaxTokens)},
       fp \in {<<"*">>, <<"-size", "'">>},
       g \in {None, Some(<<"x">>)},
       l \in {None, Some("m")},
       c \in BOOLEAN :
      Start(Env("Linux", TRUE, Argv(<<".">>, fp, g, None, f, TRUE, FALSE, None, l, c), <<>>),
            NoFile, 1, <<>>, "no")

SpecSelect == InitSelect /\ [][NextBuild]_vars

(***************************************************************************)
(* Runs that name a saved path list, repeated on the file they leave: the  *)
(* entries typed at the creation range over every text of the alphabet.    *)
(***************************************************************************)
EntryAlphabet == {"a", "\"", "~", "/", " "}

NextPaths == Next \/ Rerun

\* the entries typed at one creation: at most MaxPaths of them, none empty,
\* of MaxEntryChars atoms together
EntryLists ==
    LET texts == SeqsUpTo(EntryAlphabet \cup {"\n"}, MaxEntryChars + MaxPaths - 1)
        lists == {Split(t, "\n") : t \in texts \ {<<>>}}
    IN  {es \in lists : /\ Len(es) <= MaxPaths
                        /\ \A i \in 1..Len(es) : es[i] # <<>>
                        /\ Len(Join(es, "\n")) - (Len(es) - 1) <= MaxEntryChars}

\* the input of a creation: yes, the entries, and the empty line or the end
\* of the input
CreationScripts ==
    {<<<<"y">>>> \o es \o end : es \in EntryLists \cup {<<>>}, end \in {<<>>, <<<<>>>>}}

PathsSources ==
    {<<NoFile, sc>> : sc \in CreationScripts \cup {<<>>, <<<<"n">>>>, <<<<"maybe">>, <<"no">>>>}}
    \cup {<<File(FALSE, <<>>, 0, FALSE), <<<<"yes">>>>>>}
    \cup {<<File(TRUE, c, b, TRUE), <<<<"n">>>>>> :
            c \in {<<"~", "\n", "\"", " ", "\n">>, <<"/", "a", "\n", "\n", "~", "a">>},
            b \in 0..2}

InitPaths ==
    \E src \in PathsSources, s \in BOOLEAN :
      Start(Env("Linux", TRUE,
                Argv(<<".">>, <<"*">>, None, Some(DefaultList), None, s, FALSE, None, None,
                     FALSE),
                src[2]),
            src[1], 1, <<>>, "no")

SpecPaths == InitPaths /\ [][NextPaths]_vars


(***************************************************************************)
(* Properties.                                                             *)
(***************************************************************************)
\* the events of one kind written to standard output, in order
Events(k) == SelectSeq(out, LAMBDA e : e.k = k)

\* the events of one kind written for path p
EventsFor(k, p) == SelectSeq(out, LAMBDA e : e.k = k /\ e.p = p)

\* the numbers of the lines of child i written to standard output, in order
LinesOut(i) ==
    LET evs == EventsFor("line", i)
    IN  [j \in 1..Len(evs) |-> evs[j].n]

\* the numbers of the lines of an output that decode, ascending
DecodableLines(written) ==
    SelectSeq([n \in 1..Len(written) |-> n], LAMBDA n : written[n])

AllLines(written) == [n \in 1..Len(written) |-> n]

Alive == {i \in DOMAIN children : children[i].alive}

----------------------------------------------------------------------------
\* C1 as stated: in show-only mode no child process at all is spawned during
\* the run, whatever the other flags are.
C1_NoChildProcessInShowOnly ==
    env.argv.show_command => (children = <<>> /\ stty = 0)

\* C1, amended: in show-only mode the assembled command is never executed.  No
\* child is spawned for a command, nothing is read from a child, and every
\* path the loop has passed has its command text printed exactly once.  The
\* only process spawned is 'stty size', once per path and in verbose mode only.
C1_ShowOnlyNeverExecutes ==
    env.argv.show_command =>
        /\ children = <<>>
        /\ pc # "reading"
        /\ Events("line") = <<>>
        /\ err = <<>>
        /\ \A p \in 1..(idx - 1) : Len(EventsFor("command", p)) = 1
        /\ Len(Events("command")) <= Len(paths)
        /\ stty <= Len(paths)
        /\ stty > 0 => env.argv.verbose
        /\ stty # Len(Events("separator")) =>
              (stty = Len(Events("separator")) + 1 /\ pc = "crashed" /\ ~env.tty)

\* a verbose show-only run over a saved list of two paths has ended
C1_Witness ==
    /\ env.argv.show_command
    /\ env.argv.verbose
    /\ Truthy(env.argv.grep)
    /\ pc = "done"
    /\ Len(paths) = 2
    /\ Len(Events("command")) = 2
    /\ stty = 2

----------------------------------------------------------------------------
\* C2 as stated: the paths are processed in list order with at most one child
\* alive; when the child for the next path is started, the earlier child has
\* exited and every line of its output has been read and written to standard
\* output.
C2_EveryLineWrittenBeforeNextChild ==
    /\ Cardinality(Alive) <= 1
    /\ \A i \in DOMAIN children : children[i].p = i
    /\ \A i \in 1..(Len(children) - 1) :
         /\ ~children[i].alive
         /\ children[i].nread = Len(children[i].written)
         /\ LinesOut(i) = AllLines(children[i].written)

\* C2, amended: the paths are processed in list order with at most one child
\* alive; when the child for the next path is started, the earlier child has
\* exited, every line of its output has been read, and every line that
\* decodes has been written to standard output, in order (a line that does not
\* decode is not written).
C2_SequentialChildren ==
    /\ Cardinality(Alive) <= 1
    /\ \A i \in DOMAIN children : children[i].p = i
    /\ \A i \in 1..(Len(children) - 1) :
         /\ ~children[i].alive
         /\ ~children[i].open
         /\ children[i].nread = Len(children[i].written)
         /\ LinesOut(i) = DecodableLines(children[i].written)

\* the second child runs after the first wrote a line that decodes and one
\* that does not
C2_Witness ==
    /\ Len(children) = 2
    /\ children[2].alive
    /\ Len(children[1].written) = 2
    /\ Len(DecodableLines(children[1].written)) = 1

----------------------------------------------------------------------------
\* the tokens of the selector given on the command line
SelectorTokensGiven == Split(env.argv.file_type.v, ",")

\* no key of the registry starts with the token
MatchesNoKey(token) ==
    \A k \in DOMAIN create_file_type_categories :
        ~StartsWith(create_file_type_categories[k].key, token)

UnknownTokens == {i \in DOMAIN SelectorTokensGiven : MatchesNoKey(SelectorTokensGiven[i])}

DialogKinds == {"does not exist", "create it?", "please respond", "please enter", "cannot open"}

----------------------------------------------------------------------------
\* the options with no context lines supplied
NoContext(a) == [a EXCEPT !.more_context = None]

\* C4 as stated: with context lines but no content pattern, a run over one or
\* more paths emits exactly one warning, and every command is the one the same
\* options without context lines give.
C4_ExactlyOneContextWarning ==
    (pc = "done" /\ env.argv.more_context.some /\ ~Truthy(env.argv.grep)
     /\ Len(paths) >= 1) =>
        /\ Len(Events("warning")) = 1
        /\ \A i \in DOMAIN out :
             out[i].k = "command" =>
                out[i].text = Command(paths[out[i].p], NoContext(args), find_arg,
                                      GrepArg(NoContext(args)), env.platform)


----------------------------------------------------------------------------
\* a program-written atom
B(c) == [c |-> c, u |-> FALSE]

\* the command restricts the traversal to regular files
RestrictsToFiles(command) ==
    \E i \in 1..(Len(command) - 2) : command[i] = B("-type") /\ command[i + 2] = B("f")

\* the command holds the default size ceiling before the content-search step
HasCeilingBeforeSearch(command) ==
    \E i \in 1..(Len(command) - 2), j \in DOMAIN command :
        /\ command[i] = B("-size")
        /\ command[i + 2] = B("-2000k")
        /\ command[j] = B("-exec")
        /\ i < j

\* the traversal filter holds a size predicate
HasSizePredicate(filter) == \E i \in DOMAIN filter : filter[i] = B("-size")

\* C5 as stated: with a content pattern, every assembled command restricts the
\* traversal to regular files and holds the default size ceiling, before the
\* content-search step, exactly when the traversal filter holds no size
\* predicate, whatever the path, the file pattern and the content pattern are.
C5_CeilingIffNoSizePredicate ==
    \A i \in DOMAIN out :
        (out[i].k = "command" /\ Truthy(env.argv.grep)) =>
            /\ RestrictsToFiles(out[i].text)
            /\ HasCeilingBeforeSearch(out[i].text) <=> ~HasSizePredicate(find_arg)

----------------------------------------------------------------------------
\* the program-written size keywords of the traversal filter, by position
SizeKeywords == {i \in DOMAIN find_arg : find_arg[i] = B("-size")}

\* the positions at which the parenthesized group opens
GroupOpens == {i \in DOMAIN find_arg : find_arg[i] = B("(")}

Resolved == Truthy(env.argv.file_type) /\ pc \notin {"parse", "find", "exited"}

\* C6: the traversal filter holds a category size predicate exactly when the
\* selector resolved to one category whose size filter is not empty; the
\* predicate is that size filter and stands before the parenthesized group.
\* Two or more categories give no size predicate.
C6_CategorySizePredicate ==
    Resolved =>
        LET one == Len(file_type_cats) = 1 /\ file_type_cats[1].size # <<>>
        IN  /\ SizeKeywords # {} <=> one
            /\ Cardinality(SizeKeywords) <= 1
            /\ Cardinality(GroupOpens) = 1
            /\ \A i \in SizeKeywords :
                 /\ SubSeq(find_arg, i + 2, i + 2) = Lit(file_type_cats[1].size)
                 /\ \A g \in GroupOpens : i < g
            /\ Len(file_type_cats) >= 2 => SizeKeywords = {}

\* one category with a size filter was selected and its command assembled
C6_Witness ==
    /\ pc = "done"
    /\ Resolved
    /\ Len(file_type_cats) = 1
    /\ file_type_cats[1].size = <<"+4k">>
    /\ Len(Events("command")) = 1

----------------------------------------------------------------------------
\* the operands of a command, NoOperands when it does not tokenize
Operands(command) == ShlexSplit(command).argv

NameOptions == {Lit(<<"-iname">>), Lit(<<"-name">>)}

\* the operand is the text, all of it copied from the user's string
IsUserText(operand, text) == operand = Usr(text)

\* the operand is the text followed by program-written atoms only
StartsWithUserText(operand, text) ==
    /\ Len(operand) >= Len(text)
    /\ SubSeq(operand, 1, Len(text)) = Usr(text)
    /\ \A k \in (Len(text) + 1)..Len(operand) : ~operand[k].u

HasUserAtom(operand) == \E k \in DOMAIN operand : operand[k].u

\* the command tokenizes, the search path is its second operand, the operand
\* of every name predicate is the file pattern (with the extension), the
\* content pattern is the operand before '{}', and no other operand holds
\* text of these strings
WellFormed(command) ==
    LET argv == Operands(command)
        n == Len(argv)
        sp == EscapeDoubleQuotes(env.argv.search_path)
        fp == EscapeDoubleQuotes(env.argv.file_pattern)
        g == EscapeDoubleQuotes(env.argv.grep.v)
        named == {j \in 2..n : argv[j - 1] \in NameOptions}
        searched == IF Truthy(env.argv.grep) THEN {n - 2} ELSE {}
    IN  /\ ShlexSplit(command).ok
        /\ n >= 2
        /\ argv[1] = Lit(<<"find">>)
        /\ IsUserText(argv[2], sp)
        /\ named # {}
        /\ \A j \in named : StartsWithUserText(argv[j], fp)
        /\ Truthy(env.argv.grep) =>
              /\ n >= 5
              /\ IsUserText(argv[n - 2], g)
              /\ argv[n - 1] = Lit(<<"{}">>)
              /\ argv[n] = Lit(<<";">>)
        /\ \A j \in 1..n :
              (HasUserAtom(argv[j]) /\ argv[j][1].u) => j \in {2} \cup named \cup searched

\* C7 as stated: for every search path, file pattern and content pattern the
\* assembled command is well-formed: it tokenizes by the shell's quoting rules
\* and each of the strings is exactly one operand, its double quotes escaped.
C7_CommandWellFormed ==
    \A i \in DOMAIN out : out[i].k = "command" => WellFormed(out[i].text)

----------------------------------------------------------------------------
\* the registry keeps the hand-authored entries first and the generated
\* 'not-' entries after them, in the same order
InsertionOrder ==
    LET registry == create_file_type_categories
        n == Len(HandAuthored)
    IN  /\ Len(registry) = 2 * n
        /\ \A k \in 1..n :
             /\ registry[k] = HandAuthored[k]
             /\ registry[n + k].key = NotPrefix \o HandAuthored[k].key
             /\ registry[n + k].cat.extensions = HandAuthored[k].cat.extensions
             /\ ~registry[n + k].cat.match

\* key k is the first key of the registry that starts with the token
FirstKeyFor(token, k) ==
    /\ StartsWith(create_file_type_categories[k].key, token)
    /\ \A j \in 1..(k - 1) : ~StartsWith(create_file_type_categories[j].key, token)

\* C8: when every token is the prefix of some key, the resolution returns
\* one category per token, in token order: the category stored under the
\* first key, in insertion order, that starts with the token.
C8_FirstKeyPrefixMatch ==
    /\ InsertionOrder
    /\ (Truthy(env.argv.file_type) /\ UnknownTokens = {} /\ pc \notin {"parse", "find"}) =>
         /\ pc # "exited"
         /\ Len(file_type_cats) = Len(SelectorTokensGiven)
         /\ \A i \in DOMAIN SelectorTokensGiven :
              \E k \in DOMAIN create_file_type_categories :
                 /\ FirstKeyFor(SelectorTokensGiven[i], k)
                 /\ file_type_cats[i] = create_file_type_categories[k].cat

\* 'c,not-' was resolved: 'c' is the prefix of three keys and the name of
\* none, 'not-' is the prefix of every generated key
C8_Witness ==
    /\ pc = "done"
    /\ env.argv.file_type = Some(<<"c", ",", "n", "o", "t", "-">>)
    /\ Len(file_type_cats) = 2
    /\ file_type_cats[1].extensions[1] = "c"
    /\ file_type_cats[2].extensions[1] = "txt"
    /\ ~file_type_cats[2].match

----------------------------------------------------------------------------
\* the number of name predicates of the categories before category i
RECURSIVE TermsBefore(_, _)
TermsBefore(cats, i) ==
    IF i = 1 THEN 0 ELSE TermsBefore(cats, i - 1) + Len(cats[i - 1].extensions)

\* the category and the extension of the t-th name predicate
TermCategory(cats, t) ==
    CHOOSE i \in DOMAIN cats :
        TermsBefore(cats, i) < t /\ t <= TermsBefore(cats, i) + Len(cats[i].extensions)

\* the t-th name predicate with what joins it to the one before
ExpectedTerm(cats, t, option, pattern) ==
    LET i == TermCategory(cats, t)
        j == t - TermsBefore(cats, i)
        joined == IF t = 1 THEN <<>>
                  ELSE IF j = 1 THEN <<"-o", " ">>
                  ELSE IF cats[i].match THEN <<"-o", " ">>
                  ELSE <<"-a", " ">>
        negated == IF cats[i].match THEN <<>> ELSE <<"-not", " ">>
    IN  Lit(joined \o negated \o <<option, " ", "'">>) \o Usr(pattern)
        \o Lit(<<".", cats[i].extensions[j], "'", " ">>)

RECURSIVE ExpectedTerms(_, _, _, _)
ExpectedTerms(cats, t, option, pattern) ==
    IF t = 0 THEN <<>>
    ELSE ExpectedTerms(cats, t - 1, option, pattern) \o ExpectedTerm(cats, t, option, pattern)

ExpectedGroup(cats, option, pattern) ==
    Lit(<<"\\", "(", " ">>)
    \o ExpectedTerms(cats, TermsBefore(cats, Len(cats) + 1), option, pattern)
    \o Lit(<<" ", "\\", ")", " ">>)

GroupAtoms == {B("("), B(")"), B("-name"), B("-iname"), B("-o"), B("-a")}

\* C9: for the resolved categories the traversal filter holds one
\* parenthesized group and no name predicate outside it; the group holds, for
\* each category in order, one name predicate per extension on pattern + '.' +
\* extension, joined by OR for a matching category and negated and joined by
\* AND for a non-matching one, the categories joined by OR, every predicate in
\* the case mode of the command line.
C9_NameFilterStructure ==
    Resolved =>
        LET option == IF env.argv.case_sensitive THEN "-name" ELSE "-iname"
            group == ExpectedGroup(file_type_cats, option, args.file_pattern)
        IN  /\ file_type_cats # <<>>
            /\ \E a \in DOMAIN find_arg :
                 /\ a + Len(group) - 1 <= Len(find_arg)
                 /\ SubSeq(find_arg, a, a + Len(group) - 1) = group
                 /\ \A k \in DOMAIN find_arg :
                      find_arg[k] \in GroupAtoms => (a <= k /\ k < a + Len(group))

\* a matching and a non-matching category were selected together
C9_Witness ==
    /\ pc = "done"
    /\ Len(file_type_cats) = 2
    /\ file_type_cats[1].match
    /\ ~file_type_cats[2].match
    /\ env.argv.case_sensitive

----------------------------------------------------------------------------
\* an entry as it is to come back: double quotes escaped, a leading '~'
\* expanded, nothing else changed
ReadBack(entry) == ExpandUser(EscapeDoubleQuotes(entry))

\* C10 as stated: a creation fed e1..en and the empty line writes e1..en
\* separated by newlines, with no newline after en; a later run reads the
\* same entries in the same order, each with its double quotes escaped and a
\* leading '~' expanded, and unchanged otherwise.
C10_SavedListRoundTrip ==
    created = "complete" =>
        /\ file.content = Join(typed, "\n")
        /\ (run > 1 /\ pc \in {"invoke", "reading", "done"}) =>
              paths = [i \in DOMAIN typed |-> ReadBack(typed[i])]

----------------------------------------------------------------------------
\* the saved list could not be read and no list was written in its place: the
\* answer was no, the file could not be opened for writing, or the input
\* ended while the entries were typed
ResolutionAborted ==
    /\ args.default_path_file.some
    /\ Events("does not exist") # <<>>
    /\ created \in {"no", "failed"}
    /\ pc \in {"invoke", "reading", "done"}

\* C11: when the saved list cannot be read and the creation is declined or
\* fails, the resolved path list is empty, the process has not failed, and
\* no command is printed or executed.
C11_AbortedResolutionIsNoOp ==
    ResolutionAborted =>
        /\ paths = <<>>
        /\ Events("command") = <<>>
        /\ children = <<>>
        /\ exit_status = 0

----------------------------------------------------------------------------
\* the numbers of the lines of an output that do not decode, ascending
UndecodableLines(written) ==
    SelectSeq([n \in 1..Len(written) |-> n], LAMBDA n : ~written[n])

\* the numbers of the lines of child i reported on standard error, in order
LinesWarned(i) ==
    LET evs == SelectSeq(err, LAMBDA e : e.k = "cannot process" /\ e.p = i)
    IN  [j \in 1..Len(evs) |-> evs[j].n]

\* the read loop of child i is over
LoopOver(i) == i < Len(children) \/ pc # "reading"

\* C12: of the lines read from a child so far, the decodable ones are on
\* standard output exactly once and in emission order and each undecodable
\* one has one warning on standard error; a read loop that is over has read
\* every line of a child that has exited; and with the child exited and the
\* stream at end-of-file the loop ends at its next pass, writing nothing.
C12_UndecodableLineDoesNotStopStream ==
    /\ [](\A i \in DOMAIN children :
            LET c == children[i]
                read == SubSeq(c.written, 1, c.nread)
            IN  /\ LinesOut(c.p) = DecodableLines(read)
                /\ LinesWarned(c.p) = UndecodableLines(read)
                /\ LoopOver(i) => (~c.alive /\ c.nread = Len(c.written)))
    /\ [][(pc = "reading" /\ ~children[Len(children)].alive
              /\ children[Len(children)].nread = Len(children[Len(children)].written))
            => (pc' = "invoke" /\ idx' = idx + 1 /\ out' = out /\ err' = err)]_vars

\* a child has exited after an undecodable line followed by a decodable one,
\* and its read loop is over
C12_Witness ==
    \E i \in DOMAIN children :
        /\ children[i].written = <<FALSE, TRUE>>
        /\ LoopOver(i)
        /\ LinesOut(children[i].p) = <<2>>
        /\ LinesWarned(children[i].p) = <<1>>

=============================================================================
